---- MODULE Spec2Model ----
(***************************************************************************)
(* Booking-slot allocation and booking lifecycle of                        *)
(* case-back-restaurant-go: the availability repository (seat counters),   *)
(* the booking repository (status, alternatives) and the use cases that    *)
(* drive them, as concurrent request handlers over one PostgreSQL store.   *)
(*                                                                         *)
(* Every request handler is a process that walks through its database      *)
(* statements one at a time.  A statement of a transaction that takes a    *)
(* row lock (SELECT ... FOR UPDATE, UPDATE) waits while another            *)
(* transaction holds that row; the writes of a transaction become visible  *)
(* at its commit, which the model takes together with the transaction's    *)
(* last write.  Plain SELECTs never wait and read committed data.          *)
(* Timestamps are modelled by whether they are set.                        *)
(***************************************************************************)
EXTENDS Integers, FiniteSets, Sequences, TLC

\* ------------------------------------------------------------- bounds
NumProcs == 2
MaxBookings == 2
MaxAlts == 2
MaxCap == 2
MaxDelta == 2
IntBits == 4
PoolSize == 2

Procs == 1..NumProcs
BookingIds == 1..MaxBookings
AltIds == 1..MaxAlts
TimeSlots == {"19:00", "20:30"}
Capacities == 1..MaxCap
\* capacities a SetAvailability request can carry: nothing on its way to the
\* INSERT or UPDATE compares the capacity with 1
RequestCapacities == 0..MaxCap
Guests == 1..MaxCap
\* The largest value of the machine integer (Go int), scaled to IntBits bits
MaxInt == 2 ^ (IntBits - 1) - 1

\* Two's complement wrap-around of a machine integer
WrapInt(x) == ((x + 2 ^ (IntBits - 1)) % 2 ^ IntBits) - 2 ^ (IntBits - 1)

\* The deltas of the requests: small ones of either sign, and the largest int
Deltas == ((0 - MaxDelta)..MaxDelta) \cup {MaxInt}
NoSlot == ""

\* ------------------------------------------------------------- domain
BookingStatusPending == "pending"
BookingStatusConfirmed == "confirmed"
BookingStatusRejected == "rejected"
BookingStatusCancelled == "cancelled"
BookingStatusCompleted == "completed"

Statuses ==
  {BookingStatusPending, BookingStatusConfirmed, BookingStatusRejected,
   BookingStatusCancelled, BookingStatusCompleted}

isValidStatus(status) == status \in Statuses

\* Mutant: the seats already reserved are not subtracted
AvailableSeatsOfEmpty(a) == a.capacity

AvailableSeats(a) == a.capacity - a.reserved

VARIABLES
  slots,        \* table availability, keyed by time slot (one restaurant, one date)
  bookings,     \* table bookings
  alts,         \* table booking_alternatives
  slotLock,     \* row locks on availability: the process holding each, or 0
  bookingLock,  \* row locks on bookings
  altLock,      \* row locks on booking_alternatives
  proc          \* each request handler: its position, arguments, reads and result

vars == <<slots, bookings, alts, slotLock, bookingLock, altLock, proc>>

NoSlotRow == [exists |-> FALSE, capacity |-> 0, reserved |-> 0]
NoBooking ==
  [exists |-> FALSE, time |-> NoSlot, guests |-> 0, status |-> "none",
   confirmed_at |-> FALSE, rejected_at |-> FALSE, completed_at |-> FALSE]
NoAlt ==
  [exists |-> FALSE, booking |-> 0, time |-> NoSlot,
   accepted_at |-> FALSE, rejected_at |-> FALSE]

Idle ==
  [pc |-> "idle", op |-> "none", b |-> 0, a |-> 0, s |-> NoSlot, n |-> 0,
   to |-> "none", cap |-> 0, res |-> 0, seen |-> "none", err |-> "none",
   notif |-> "none", rcpt |-> "none", conns |-> 0]

\* A handler that has returned: its result stays readable until the process
\* takes its next request.
Returned(p) == proc[p].pc = "ret"

\* What stays of a handler's frame once it has returned: the call and its result
Result(r) ==
  [r EXCEPT !.pc = "ret", !.to = "none", !.cap = 0, !.res = 0, !.conns = 0]

Finish(p, r) == proc' = [proc EXCEPT ![p] = Result(r)]

\* Mutant: the availability row is read without FOR UPDATE
SlotRowUnlocked(s) == TRUE

\* A row no transaction holds: what FOR UPDATE and UPDATE wait for
SlotRowFree(s) == slotLock[s] = 0
BookingRowFree(b) == bookingLock[b] = 0

\* Mutant: the alternative is read without FOR UPDATE
AltRowUnlocked(a) == TRUE

AltRowFree(a) == altLock[a] = 0

\* ------------------------------------------------------- availability

\* Mutant: the floor at 0 is missing
NewReservedUnfloored(reserved, delta) == reserved + delta

\* newReserved := reserved + delta in machine integers, floored at 0
NewReserved(reserved, delta) ==
  IF WrapInt(reserved + delta) < 0 THEN 0 ELSE WrapInt(reserved + delta)

\* Mutant: the last free seat is refused as well
ExceedsOrFillsCapacity(capacity, reserved, delta) == reserved + delta >= capacity

ExceedsCapacity(capacity, reserved, delta) == WrapInt(reserved + delta) > capacity

\* availabilityUseCase.UpdateReservedSeats: the request enters the repository call
UpdateReservedSeatsBegin(p) ==
  /\ proc[p].pc = "idle"
  /\ \E s \in TimeSlots, delta \in Deltas :
       proc' = [proc EXCEPT ![p] =
                  [Idle EXCEPT !.pc = "urs_select", !.op = "UpdateReservedSeats",
                               !.s = s, !.n = delta]]
  /\ UNCHANGED <<slots, bookings, alts, slotLock, bookingLock, altLock>>

\* availabilityUseCase.UpdateReservedSeats with the connection pool in view:
\* the request enters WithTransaction, on a row no other call is working on
UpdateReservedSeatsPooled(p) ==
  /\ proc[p].pc = "idle"
  /\ \E s \in TimeSlots, delta \in Deltas :
       /\ slots[s].exists
       /\ \A q \in Procs : proc[q].pc \in {"idle", "ret"} \/ proc[q].s # s
       /\ proc' = [proc EXCEPT ![p] =
                     [Idle EXCEPT !.pc = "wt_executor", !.op = "UpdateReservedSeats",
                                  !.s = s, !.n = delta]]
  /\ UNCHANGED <<slots, bookings, alts, slotLock, bookingLock, altLock>>

RECURSIVE ConnsHeld(_)
\* connections of the pool held by the processes 1..n
ConnsHeld(n) == IF n = 0 THEN 0 ELSE proc[n].conns + ConnsHeld(n - 1)

\* pool.Acquire returns only while the pool has an idle connection
FreeConns == PoolSize - ConnsHeld(NumProcs)

\* WithTransaction, r.GetExecutor(ctx): acquires a connection that is held
\* until WithTransaction returns (defer release())
WithTransactionGetExecutor(p) ==
  /\ proc[p].pc = "wt_executor"
  /\ FreeConns > 0
  /\ proc' = [proc EXCEPT ![p] = [@ EXCEPT !.pc = "wt_acquire", !.conns = 1]]
  /\ UNCHANGED <<slots, bookings, alts, slotLock, bookingLock, altLock>>

\* WithTransaction, r.pool.Acquire(ctx): a second connection, on which the
\* transaction begins and fn runs
WithTransactionAcquire(p) ==
  /\ proc[p].pc = "wt_acquire"
  /\ FreeConns > 0
  /\ proc' = [proc EXCEPT ![p] = [@ EXCEPT !.pc = "urs_select", !.conns = 2]]
  /\ UNCHANGED <<slots, bookings, alts, slotLock, bookingLock, altLock>>

\* Where a handler goes once its UpdateReservedSeats call has returned.
AfterUpdateReservedSeats(r) ==
  IF r.op = "CreateBooking"
    THEN IF r.err = "none" THEN [r EXCEPT !.pc = "notify"]
         ELSE [r EXCEPT !.pc = "us_select", !.to = BookingStatusCancelled]
    ELSE Result(r)

\* SELECT capacity, reserved ... FOR UPDATE: waits for the row, then reads it;
\* no row ends the transaction with ErrAvailabilityNotFound
UpdateReservedSeatsSelect(p) ==
  /\ proc[p].pc = "urs_select"
  /\ LET r == proc[p]
         row == slots[r.s]
     IN IF ~row.exists
          THEN /\ proc' = [proc EXCEPT ![p] =
                             AfterUpdateReservedSeats([r EXCEPT !.err = "AvailabilityNotFound"])]
               /\ UNCHANGED slotLock
          ELSE /\ SlotRowFree(r.s)
               /\ slotLock' = [slotLock EXCEPT ![r.s] = p]
               /\ proc' = [proc EXCEPT ![p] =
                             [r EXCEPT !.pc = "urs_update", !.cap = row.capacity,
                                       !.res = row.reserved]]
  /\ UNCHANGED <<slots, bookings, alts, bookingLock, altLock>>

\* the capacity check, the floor, UPDATE availability SET reserved and the commit
\* (or the rollback), which releases the row
UpdateReservedSeatsUpdate(p) ==
  /\ proc[p].pc = "urs_update"
  /\ LET r == proc[p]
     IN /\ IF ExceedsCapacity(r.cap, r.res, r.n)
             THEN /\ proc' = [proc EXCEPT ![p] =
                                AfterUpdateReservedSeats([r EXCEPT !.err = "InsufficientCapacity"])]
                  /\ UNCHANGED slots
             ELSE /\ slots' = [slots EXCEPT ![r.s].reserved = NewReserved(r.res, r.n)]
                  /\ proc' = [proc EXCEPT ![p] = AfterUpdateReservedSeats(r)]
        /\ slotLock' = [slotLock EXCEPT ![r.s] = 0]
  /\ UNCHANGED <<bookings, alts, bookingLock, altLock>>

\* AvailabilityRepository.SetAvailability up to its SELECT id, reserved: the
\* restaurant must exist; the row found decides between UPDATE and INSERT
SetAvailability(p) ==
  /\ proc[p].pc = "idle"
  /\ \E t \in TimeSlots, c \in RequestCapacities, known \in BOOLEAN :
       LET r == [Idle EXCEPT !.op = "SetAvailability", !.s = t, !.n = c]
       IN proc' = [proc EXCEPT ![p] =
                     IF ~known THEN [r EXCEPT !.pc = "ret", !.err = "RestaurantNotFound"]
                     ELSE IF slots[t].exists THEN [r EXCEPT !.pc = "sa_update"]
                     ELSE [r EXCEPT !.pc = "sa_insert"]]
  /\ UNCHANGED <<slots, bookings, alts, slotLock, bookingLock, altLock>>

\* Mutant: the UPDATE writes the whole row of the request, reserved = 0 included
SetCapacityAndReset(row, capacity) ==
  [row EXCEPT !.capacity = capacity, !.reserved = 0]

\* The row SetAvailability's UPDATE leaves: the new capacity, reserved kept
SetCapacity(row, capacity) == [row EXCEPT !.capacity = capacity]

\* UPDATE availability SET capacity WHERE id = existingID (waits for the row)
SetAvailabilityUpdate(p) ==
  /\ proc[p].pc = "sa_update"
  /\ SlotRowFree(proc[p].s)
  /\ slots' = [slots EXCEPT ![proc[p].s] = SetCapacity(@, proc[p].n)]
  /\ Finish(p, proc[p])
  /\ UNCHANGED <<bookings, alts, slotLock, bookingLock, altLock>>

\* INSERT INTO availability (..., reserved = 0); CONSTRAINT unique_slot refuses a
\* second row for the key
SetAvailabilityInsert(p) ==
  /\ proc[p].pc = "sa_insert"
  /\ IF slots[proc[p].s].exists
       THEN /\ Finish(p, [proc[p] EXCEPT !.err = "UniqueViolation"])
            /\ UNCHANGED slots
       ELSE /\ slots' = [slots EXCEPT ![proc[p].s] =
                           [exists |-> TRUE, capacity |-> proc[p].n, reserved |-> 0]]
            /\ Finish(p, proc[p])
  /\ UNCHANGED <<bookings, alts, slotLock, bookingLock, altLock>>

\* Mutant: the slot must have a seat more than the guests
IsAvailableWithSpare(row, g) == row.exists /\ AvailableSeats(row) > g

\* CheckAvailability's answer on the slot row of the requested time
IsAvailable(row, g) == row.exists /\ AvailableSeats(row) >= g

\* availabilityUseCase.CheckAvailability: GetByRestaurantAndDate (which can
\* fail), the slot of the requested time, AvailableSeats() >= guestsCount
CheckAvailability(p) ==
  /\ proc[p].pc = "idle"
  /\ \E t \in TimeSlots, g \in 0..MaxCap, failed \in BOOLEAN :
       LET r == [Idle EXCEPT !.pc = "ret", !.op = "CheckAvailability", !.s = t, !.n = g]
       IN proc' = [proc EXCEPT ![p] =
                     IF failed THEN [r EXCEPT !.seen = "false", !.err = "GetAvailability"]
                     ELSE [r EXCEPT !.seen = IF IsAvailable(slots[t], g) THEN "true"
                                             ELSE "false"]]
  /\ UNCHANGED <<slots, bookings, alts, slotLock, bookingLock, altLock>>

\* ------------------------------------------------------------ bookings

FreeBookingIds == {b \in BookingIds : ~bookings[b].exists}
FreeAltIds == {a \in AltIds : ~alts[a].exists}
Smallest(S) == CHOOSE x \in S : \A y \in S : x <= y

\* The timestamp column UpdateStatus sets along with each status
WithStatus(row, status) ==
  [row EXCEPT !.status = status,
              !.confirmed_at = IF status = BookingStatusConfirmed THEN TRUE ELSE @,
              !.rejected_at = IF status = BookingStatusRejected THEN TRUE ELSE @,
              !.completed_at = IF status = BookingStatusCompleted THEN TRUE ELSE @]

\* Mutant: a successful CancelBooking goes on to release the booking's seats
AfterUpdateStatusReleasing(r) ==
  IF r.op = "CancelBooking" /\ r.err = "none"
    THEN [r EXCEPT !.pc = "urs_select", !.s = bookings[r.b].time,
                   !.n = 0 - bookings[r.b].guests]
    ELSE IF r.op = "CreateBooking" \/ r.err # "none" \/ r.op = "CompleteBooking"
      THEN Result(r)
      ELSE [r EXCEPT !.pc = "notify"]

\* Mutant: the use case notifies whether or not UpdateStatus returned an error
AfterUpdateStatusNotifying(r) ==
  IF r.op = "CreateBooking" \/ r.op = "CompleteBooking"
    THEN Result(r)
    ELSE [r EXCEPT !.pc = "notify"]

\* Where a handler goes once its UpdateStatus call has returned: CreateBooking's
\* compensation returns the capacity error, CompleteBooking notifies nobody
AfterUpdateStatus(r) ==
  IF r.op = "CreateBooking" \/ r.err # "none" \/ r.op = "CompleteBooking"
    THEN Result(r)
    ELSE [r EXCEPT !.pc = "notify"]

\* SELECT status FROM bookings WHERE id FOR UPDATE; the status read is not used
UpdateStatusSelect(p) ==
  /\ proc[p].pc = "us_select"
  /\ LET r == proc[p]
     IN IF ~bookings[r.b].exists
          THEN /\ proc' = [proc EXCEPT ![p] =
                             AfterUpdateStatus(
                               IF r.op = "CreateBooking" THEN r
                               ELSE [r EXCEPT !.err = "BookingNotFound"])]
               /\ UNCHANGED bookingLock
          ELSE /\ BookingRowFree(r.b)
               /\ bookingLock' = [bookingLock EXCEPT ![r.b] = p]
               /\ proc' = [proc EXCEPT ![p] = [r EXCEPT !.pc = "us_update"]]
  /\ UNCHANGED <<slots, bookings, alts, slotLock, altLock>>

\* UPDATE bookings SET status (and its timestamp) WHERE id, and the commit
UpdateStatusUpdate(p) ==
  /\ proc[p].pc = "us_update"
  /\ LET r == proc[p]
     IN /\ bookings' = [bookings EXCEPT ![r.b] = WithStatus(@, r.to)]
        /\ bookingLock' = [bookingLock EXCEPT ![r.b] = 0]
        /\ proc' = [proc EXCEPT ![p] = AfterUpdateStatus(r)]
  /\ UNCHANGED <<slots, alts, slotLock, altLock>>

\* A statement of UpdateStatus returns an error other than no rows (the
\* connection is lost, the context is done): the transaction is rolled back and
\* the caller gets the error; CreateBooking only logs it and returns the error
\* of its seat reservation
UpdateStatusFails(p) ==
  /\ proc[p].pc \in {"us_select", "us_update"}
  /\ LET r == proc[p]
     IN /\ bookingLock' = [bookingLock EXCEPT ![r.b] = IF @ = p THEN 0 ELSE @]
        /\ proc' = [proc EXCEPT ![p] =
                      AfterUpdateStatus(
                        IF r.op = "CreateBooking" THEN r
                        ELSE [r EXCEPT !.err = "UpdateBookingStatus"])]
  /\ UNCHANGED <<slots, bookings, alts, slotLock, altLock>>

\* The statuses each use case accepts in the booking GetByID returned
ConfirmAllowed(status) == status = BookingStatusPending
RejectAllowed(status) == status = BookingStatusPending
CancelAllowed(status) ==
  ~(status = BookingStatusCompleted \/ status = BookingStatusRejected)
CompleteAllowed(status) == status = BookingStatusConfirmed
SuggestAllowed(status) == status = BookingStatusPending

\* A status use case up to its UpdateStatus call: GetByID, then the status check
Transition(p, op, b, allowed, to) ==
  /\ proc[p].pc = "idle"
  /\ LET r == [Idle EXCEPT !.op = op, !.b = b]
     IN proc' = [proc EXCEPT ![p] =
                   IF ~bookings[b].exists
                     THEN [r EXCEPT !.pc = "ret", !.err = "BookingNotFound"]
                   ELSE IF ~allowed
                     THEN [r EXCEPT !.pc = "ret", !.seen = bookings[b].status,
                                    !.err = "InvalidBookingStatus"]
                   ELSE [r EXCEPT !.pc = "us_select", !.seen = bookings[b].status,
                                  !.to = to]]
  /\ UNCHANGED <<slots, bookings, alts, slotLock, bookingLock, altLock>>

ConfirmBooking(p) ==
  \E b \in BookingIds :
    Transition(p, "ConfirmBooking", b, ConfirmAllowed(bookings[b].status),
               BookingStatusConfirmed)

RejectBooking(p) ==
  \E b \in BookingIds :
    Transition(p, "RejectBooking", b, RejectAllowed(bookings[b].status),
               BookingStatusRejected)

CancelBooking(p) ==
  \E b \in BookingIds :
    Transition(p, "CancelBooking", b, CancelAllowed(bookings[b].status),
               BookingStatusCancelled)

CompleteBooking(p) ==
  \E b \in BookingIds :
    Transition(p, "CompleteBooking", b, CompleteAllowed(bookings[b].status),
               BookingStatusCompleted)

\* Mutant: ConfirmBooking and RejectBooking send each other's notification type
NotificationOfOther(op) ==
  CASE op = "ConfirmBooking" -> "booking_rejected"
    [] op = "RejectBooking" -> "booking_confirmed"
    [] OTHER -> "new_booking"

\* The notification each use case sends after its write
NotificationOf(op) ==
  CASE op = "CreateBooking" -> "new_booking"
    [] op = "ConfirmBooking" -> "booking_confirmed"
    [] op = "RejectBooking" -> "booking_rejected"
    [] op = "CancelBooking" -> "booking_cancelled"
    [] op = "SuggestAlternativeTime" -> "alternative_offer"
    [] op = "AcceptAlternative" -> "alternative_accepted"
    [] op = "RejectAlternative" -> "alternative_rejected"
    [] OTHER -> "none"

\* The party each use case notifies: NotifyUser or NotifyRestaurant
RecipientOf(op) ==
  CASE op \in {"ConfirmBooking", "RejectBooking", "SuggestAlternativeTime"} -> "user"
    [] op \in {"CreateBooking", "CancelBooking", "AcceptAlternative",
               "RejectAlternative"} -> "restaurant"
    [] OTHER -> "none"

\* notificationSvc.NotifyUser / NotifyRestaurant, then the handler returns nil
Notify(p) ==
  /\ proc[p].pc = "notify"
  /\ Finish(p, [proc[p] EXCEPT !.notif = NotificationOf(proc[p].op),
                               !.rcpt = RecipientOf(proc[p].op)])
  /\ UNCHANGED <<slots, bookings, alts, slotLock, bookingLock, altLock>>

\* CreateBooking up to bookingRepo.Create: the slot whose time_slot is the requested
\* time, and the free-seats check on what was read
CreateBooking(p) ==
  /\ proc[p].pc = "idle"
  /\ Cardinality({q \in Procs : proc[q].pc = "cb_create"}) < Cardinality(FreeBookingIds)
  /\ \E t \in TimeSlots, g \in Guests, known \in BOOLEAN :
       LET r == [Idle EXCEPT !.op = "CreateBooking", !.n = g, !.s = t,
                             !.seen = IF known THEN "user" ELSE "no_user"]
       IN proc' = [proc EXCEPT ![p] =
                     IF ~slots[t].exists \/ AvailableSeats(slots[t]) < g
                       THEN [r EXCEPT !.pc = "ret", !.err = "NoAvailability"]
                     ELSE [r EXCEPT !.pc = "cb_create"]]
  /\ UNCHANGED <<slots, bookings, alts, slotLock, bookingLock, altLock>>

\* BookingRepository.Create: the user must exist; INSERT INTO bookings, pending
BookingCreate(p) ==
  /\ proc[p].pc = "cb_create"
  /\ LET r == proc[p]
         id == Smallest(FreeBookingIds)
     IN IF r.seen = "no_user"
          THEN /\ Finish(p, [r EXCEPT !.err = "UserNotFound"])
               /\ UNCHANGED bookings
          ELSE /\ bookings' = [bookings EXCEPT ![id] =
                                 [NoBooking EXCEPT !.exists = TRUE, !.time = r.s,
                                                   !.guests = r.n,
                                                   !.status = BookingStatusPending]]
               /\ proc' = [proc EXCEPT ![p] = [r EXCEPT !.pc = "urs_select", !.b = id]]
  /\ UNCHANGED <<slots, alts, slotLock, bookingLock, altLock>>

\* Mutant: the error of the notification is returned to the caller
NotifyFailedIsReturned(r) == [r EXCEPT !.notif = "failed", !.err = "NotificationFailed"]

\* What a handler keeps of a notification call that returned an error: it logs
\* the error and goes on to return nil
NotifyFailed(r) == [r EXCEPT !.notif = "failed"]

\* notificationSvc.NotifyUser / NotifyRestaurant returns an error
NotifyFails(p) ==
  /\ proc[p].pc = "notify"
  /\ Finish(p, NotifyFailed(proc[p]))
  /\ UNCHANGED <<slots, bookings, alts, slotLock, bookingLock, altLock>>

\* -------------------------------------------------------- alternatives

AltDecided(alt) == alt.accepted_at \/ alt.rejected_at

\* SuggestAlternativeTime up to AddAlternative: GetByID and the pending check
SuggestAlternativeTime(p) ==
  /\ proc[p].pc = "idle"
  /\ Cardinality({q \in Procs : proc[q].pc = "alt_insert"}) < Cardinality(FreeAltIds)
  /\ \E b \in BookingIds, t \in TimeSlots :
       LET r == [Idle EXCEPT !.op = "SuggestAlternativeTime", !.b = b, !.s = t]
       IN proc' = [proc EXCEPT ![p] =
                     IF ~bookings[b].exists
                       THEN [r EXCEPT !.pc = "ret", !.err = "BookingNotFound"]
                     ELSE IF ~SuggestAllowed(bookings[b].status)
                       THEN [r EXCEPT !.pc = "ret", !.seen = bookings[b].status,
                                      !.err = "InvalidBookingStatus"]
                     ELSE [r EXCEPT !.pc = "alt_insert", !.seen = bookings[b].status]]
  /\ UNCHANGED <<slots, bookings, alts, slotLock, bookingLock, altLock>>

\* Mutant: the alternative is inserted as already accepted
NewAlternativeAccepted(b, t) ==
  [NoAlt EXCEPT !.exists = TRUE, !.booking = b, !.time = t, !.accepted_at = TRUE]

\* The row AddAlternative inserts: accepted_at and rejected_at are not set
NewAlternative(b, t) == [NoAlt EXCEPT !.exists = TRUE, !.booking = b, !.time = t]

\* BookingRepository.AddAlternative: INSERT INTO booking_alternatives
AddAlternative(p) ==
  /\ proc[p].pc = "alt_insert"
  /\ LET r == proc[p]
         id == Smallest(FreeAltIds)
     IN /\ alts' = [alts EXCEPT ![id] = NewAlternative(r.b, r.s)]
        /\ proc' = [proc EXCEPT ![p] = [r EXCEPT !.pc = "notify", !.a = id]]
  /\ UNCHANGED <<slots, bookings, slotLock, bookingLock, altLock>>

\* GetAlternativeByID (any alternative, decided or not) and GetByID of its booking
GetAlternative(p, op, a, next) ==
  /\ proc[p].pc = "idle"
  /\ LET r == [Idle EXCEPT !.op = op, !.a = a]
     IN proc' = [proc EXCEPT ![p] =
                   IF ~alts[a].exists
                     THEN [r EXCEPT !.pc = "ret", !.err = "AlternativeNotFound"]
                   ELSE [r EXCEPT !.pc = next, !.b = alts[a].booking,
                                  !.s = alts[a].time,
                                  !.seen = IF AltDecided(alts[a]) THEN "decided"
                                           ELSE "undecided"]]
  /\ UNCHANGED <<slots, bookings, alts, slotLock, bookingLock, altLock>>

AcceptAlternative(p) ==
  \E a \in AltIds : GetAlternative(p, "AcceptAlternative", a, "aa_select")

RejectAlternative(p) ==
  \E a \in AltIds : GetAlternative(p, "RejectAlternative", a, "ra_update")

\* Mutant: the statements match the alternative by id alone
UndecidedOrNot(alt) == TRUE

\* The filter of both repository statements: accepted_at IS NULL AND rejected_at IS NULL
Undecided(alt) == ~alt.accepted_at /\ ~alt.rejected_at

\* SELECT booking_id, date, time ... WHERE undecided FOR UPDATE
AcceptAlternativeSelect(p) ==
  /\ proc[p].pc = "aa_select"
  /\ LET r == proc[p]
     IN IF ~Undecided(alts[r.a])
          THEN /\ Finish(p, [r EXCEPT !.err = "AlternativeNotFound"])
               /\ UNCHANGED altLock
          ELSE /\ AltRowFree(r.a)
               /\ altLock' = [altLock EXCEPT ![r.a] = p]
               /\ proc' = [proc EXCEPT ![p] =
                             [r EXCEPT !.pc = "aa_update", !.b = alts[r.a].booking,
                                       !.s = alts[r.a].time]]
  /\ UNCHANGED <<slots, bookings, alts, slotLock, bookingLock>>

\* Mutant: the UPDATE of the booking leaves its date and time
RetargetStatusOnly(row, time) ==
  [row EXCEPT !.status = BookingStatusConfirmed, !.confirmed_at = TRUE]

\* The booking row AcceptAlternative's UPDATE bookings leaves
Retarget(row, time) ==
  [row EXCEPT !.time = time, !.status = BookingStatusConfirmed, !.confirmed_at = TRUE]

\* Mutant: the use case goes on to reserve the booking's seats on the new slot
AfterAcceptAlternativeReserving(r) ==
  [r EXCEPT !.pc = "urs_select", !.n = bookings[r.b].guests]

\* Where AcceptAlternative goes once the repository call has returned nil: to
\* its notification, with no call of the availability repository
AfterAcceptAlternative(r) == [r EXCEPT !.pc = "notify"]

\* UPDATE booking_alternatives SET accepted_at; UPDATE bookings SET date, time,
\* status, confirmed_at (waits for the booking row); commit
AcceptAlternativeUpdate(p) ==
  /\ proc[p].pc = "aa_update"
  /\ LET r == proc[p]
     IN /\ BookingRowFree(r.b)
        /\ alts' = [alts EXCEPT ![r.a].accepted_at = TRUE]
        /\ bookings' = [bookings EXCEPT ![r.b] = Retarget(@, r.s)]
        /\ altLock' = [altLock EXCEPT ![r.a] = 0]
        /\ proc' = [proc EXCEPT ![p] = AfterAcceptAlternative(r)]
  /\ UNCHANGED <<slots, slotLock, bookingLock>>

\* UPDATE booking_alternatives SET rejected_at = NOW() WHERE undecided; no row
\* affected is ErrAlternativeNotFound
RejectAlternativeUpdate(p) ==
  /\ proc[p].pc = "ra_update"
  /\ LET r == proc[p]
     IN IF ~Undecided(alts[r.a])
          THEN /\ Finish(p, [r EXCEPT !.err = "AlternativeNotFound"])
               /\ UNCHANGED alts
          ELSE /\ AltRowFree(r.a)
               /\ alts' = [alts EXCEPT ![r.a].rejected_at = TRUE]
               /\ proc' = [proc EXCEPT ![p] = [r EXCEPT !.pc = "notify"]]
  /\ UNCHANGED <<slots, bookings, slotLock, bookingLock, altLock>>

\* A handler between its first store statement and its notification
InCall(p) == proc[p].pc \notin {"idle", "ret", "notify"}

\* The context of the request is done (its deadline has passed): the statement
\* in progress and every later one return the context's error, an open
\* transaction is rolled back and releases its rows, what was committed stays,
\* and the use case returns the error (CreateBooking's compensating
\* UpdateStatus runs on the same context and fails, which is only logged)
Deadline(p) ==
  /\ InCall(p)
  /\ slotLock' = [s \in TimeSlots |-> IF slotLock[s] = p THEN 0 ELSE slotLock[s]]
  /\ bookingLock' = [b \in BookingIds |-> IF bookingLock[b] = p THEN 0 ELSE bookingLock[b]]
  /\ altLock' = [a \in AltIds |-> IF altLock[a] = p THEN 0 ELSE altLock[a]]
  /\ Finish(p, [proc[p] EXCEPT !.err = "DeadlineExceeded"])
  /\ UNCHANGED <<slots, bookings, alts>>

\* the handler's result has been delivered; the process is free for a new request
Return(p) ==
  /\ proc[p].pc = "ret"
  /\ proc' = [proc EXCEPT ![p] = Idle]
  /\ UNCHANGED <<slots, bookings, alts, slotLock, bookingLock, altLock>>

\* ------------------------------------------------------------ states
NoLocks ==
  /\ slotLock = [s \in TimeSlots |-> 0]
  /\ bookingLock = [b \in BookingIds |-> 0]
  /\ altLock = [a \in AltIds |-> 0]

Published(capacity, reserved) ==
  [exists |-> TRUE, capacity |-> capacity, reserved |-> reserved]

\* Slot rows the ledger can hold before any capacity was lowered
SlotRows ==
  {NoSlotRow} \cup
  {row \in {Published(c, r) : c \in Capacities, r \in 0..MaxCap} :
     row.reserved <= row.capacity}

\* A pending booking for one guest at 19:00, as CreateBooking leaves it
PendingBooking ==
  [NoBooking EXCEPT !.exists = TRUE, !.time = "19:00", !.guests = 1,
                    !.status = BookingStatusPending]

\* The 19:00 slot once every booking of BookingIds has reserved its seat
BookedSlots ==
  [s \in TimeSlots |->
     IF s = "19:00" THEN Published(MaxBookings, MaxBookings) ELSE NoSlotRow]

\* Concurrent seat adjustments on slots whose capacity stays fixed.
InitSlots ==
  /\ slots \in [TimeSlots -> SlotRows]
  /\ bookings = [b \in BookingIds |-> NoBooking]
  /\ alts = [a \in AltIds |-> NoAlt]
  /\ NoLocks
  /\ proc = [p \in Procs |-> Idle]

NextSlots ==
  \E p \in Procs :
    \/ UpdateReservedSeatsBegin(p)
    \/ UpdateReservedSeatsSelect(p)
    \/ UpdateReservedSeatsUpdate(p)
    \/ Return(p)

SpecSlots == InitSlots /\ [][NextSlots]_vars

\* Seat adjustments on pairwise different rows, sharing the connection pool.
NextPool ==
  \E p \in Procs :
    \/ UpdateReservedSeatsPooled(p)
    \/ WithTransactionGetExecutor(p)
    \/ WithTransactionAcquire(p)
    \/ UpdateReservedSeatsSelect(p)
    \/ UpdateReservedSeatsUpdate(p)
    \/ Return(p)

SpecPool == InitSlots /\ [][NextPool]_vars

\* The ledger with publishing: capacities change under the seat adjustments.
NextLedger ==
  \E p \in Procs :
    \/ SetAvailability(p)
    \/ SetAvailabilityUpdate(p)
    \/ SetAvailabilityInsert(p)
    \/ UpdateReservedSeatsBegin(p)
    \/ UpdateReservedSeatsSelect(p)
    \/ UpdateReservedSeatsUpdate(p)
    \/ Return(p)

SpecLedger == InitSlots /\ [][NextLedger]_vars

\* Availability checks next to publishing and seat adjustments.
NextCheck ==
  \/ NextLedger
  \/ \E p \in Procs : CheckAvailability(p)

SpecCheck == InitSlots /\ [][NextCheck]_vars

\* The booking race: an empty 19:00 slot, and every process makes one
\* CreateBooking call and keeps its result.
InitRace ==
  /\ \E c \in Capacities :
       slots = [s \in TimeSlots |-> IF s = "19:00" THEN Published(c, 0) ELSE NoSlotRow]
  /\ bookings = [b \in BookingIds |-> NoBooking]
  /\ alts = [a \in AltIds |-> NoAlt]
  /\ NoLocks
  /\ proc = [p \in Procs |-> Idle]

NextRace ==
  \E p \in Procs :
    \/ CreateBooking(p)
    \/ BookingCreate(p)
    \/ UpdateReservedSeatsSelect(p)
    \/ UpdateReservedSeatsUpdate(p)
    \/ UpdateStatusSelect(p)
    \/ UpdateStatusUpdate(p)
    \/ Notify(p)

SpecRace == InitRace /\ [][NextRace]_vars

\* The booking race with request deadlines.
NextDeadline ==
  \/ NextRace
  \/ \E p \in Procs : Deadline(p)

SpecDeadline == InitRace /\ [][NextDeadline]_vars

\* Status transitions racing on bookings that were created and are pending.
InitStatus ==
  /\ slots = BookedSlots
  /\ bookings = [b \in BookingIds |-> PendingBooking]
  /\ alts = [a \in AltIds |-> NoAlt]
  /\ NoLocks
  /\ proc = [p \in Procs |-> Idle]

NextStatus ==
  \E p \in Procs :
    \/ ConfirmBooking(p)
    \/ RejectBooking(p)
    \/ CancelBooking(p)
    \/ CompleteBooking(p)
    \/ UpdateStatusSelect(p)
    \/ UpdateStatusUpdate(p)
    \/ Notify(p)
    \/ Return(p)

SpecStatus == InitStatus /\ [][NextStatus]_vars

\* The actions of the transition table, one request at a time.
StepStatus(p) ==
  \/ ConfirmBooking(p)
  \/ RejectBooking(p)
  \/ CancelBooking(p)
  \/ CompleteBooking(p)
  \/ UpdateStatusSelect(p)
  \/ UpdateStatusUpdate(p)
  \/ SuggestAlternativeTime(p)
  \/ AddAlternative(p)
  \/ Notify(p)
  \/ Return(p)

NextStatusSeq == StepStatus(1)

SpecStatusSeq == InitStatus /\ [][NextStatusSeq]_vars

\* Cancellations next to rejections and seat adjustments on the booked slot.
NextCancel ==
  \E p \in Procs :
    \/ CancelBooking(p)
    \/ RejectBooking(p)
    \/ UpdateStatusSelect(p)
    \/ UpdateStatusUpdate(p)
    \/ UpdateReservedSeatsBegin(p)
    \/ UpdateReservedSeatsSelect(p)
    \/ UpdateReservedSeatsUpdate(p)
    \/ Notify(p)
    \/ Return(p)

SpecCancel == InitStatus /\ [][NextCancel]_vars

\* The alternative-time negotiation next to the restaurant's confirm and reject.
StepAlts(p) ==
  \/ SuggestAlternativeTime(p)
  \/ AddAlternative(p)
  \/ AcceptAlternative(p)
  \/ AcceptAlternativeSelect(p)
  \/ AcceptAlternativeUpdate(p)
  \/ RejectAlternative(p)
  \/ RejectAlternativeUpdate(p)
  \/ ConfirmBooking(p)
  \/ RejectBooking(p)
  \/ UpdateStatusSelect(p)
  \/ UpdateStatusUpdate(p)
  \/ Notify(p)
  \/ Return(p)

NextAlts == \E p \in Procs : StepAlts(p)

SpecAlts == InitStatus /\ [][NextAlts]_vars

\* The same negotiation, one request at a time.
NextAltsSeq == StepAlts(1)

SpecAltsSeq == InitStatus /\ [][NextAltsSeq]_vars

\* Two full slots: booking 1 holds the only seat of 19:00, the other bookings
\* hold every seat of 20:30, as CreateBooking leaves them.
InitRetarget ==
  /\ slots = [s \in TimeSlots |->
                IF s = "19:00" THEN Published(1, 1)
                ELSE Published(MaxBookings - 1, MaxBookings - 1)]
  /\ bookings = [b \in BookingIds |->
                   IF b = 1 THEN PendingBooking
                   ELSE [PendingBooking EXCEPT !.time = "20:30"]]
  /\ alts = [a \in AltIds |-> NoAlt]
  /\ NoLocks
  /\ proc = [p \in Procs |-> Idle]

\* One request at a time negotiating alternatives over the two full slots.
SpecRetarget == InitRetarget /\ [][NextAltsSeq]_vars

\* The negotiation of alternatives next to seat adjustments on the two slots.
NextAltSeats ==
  \E p \in Procs :
    \/ SuggestAlternativeTime(p)
    \/ AddAlternative(p)
    \/ AcceptAlternative(p)
    \/ AcceptAlternativeSelect(p)
    \/ AcceptAlternativeUpdate(p)
    \/ RejectAlternative(p)
    \/ RejectAlternativeUpdate(p)
    \/ UpdateReservedSeatsBegin(p)
    \/ UpdateReservedSeatsSelect(p)
    \/ UpdateReservedSeatsUpdate(p)
    \/ Notify(p)
    \/ Return(p)

SpecAltSeats == InitRetarget /\ [][NextAltSeats]_vars

\* Booking creation next to publishing and the restaurant's confirmations, from
\* published, unreserved slots and no booking.
InitBooking ==
  /\ slots \in [TimeSlots -> {row \in SlotRows : row.reserved = 0}]
  /\ bookings = [b \in BookingIds |-> NoBooking]
  /\ alts = [a \in AltIds |-> NoAlt]
  /\ NoLocks
  /\ proc = [p \in Procs |-> Idle]

NextBooking ==
  \E p \in Procs :
    \/ SetAvailability(p)
    \/ SetAvailabilityUpdate(p)
    \/ SetAvailabilityInsert(p)
    \/ CreateBooking(p)
    \/ BookingCreate(p)
    \/ UpdateReservedSeatsSelect(p)
    \/ UpdateReservedSeatsUpdate(p)
    \/ ConfirmBooking(p)
    \/ UpdateStatusSelect(p)
    \/ UpdateStatusUpdate(p)
    \/ UpdateStatusFails(p)
    \/ Notify(p)
    \/ Return(p)

SpecBooking == InitBooking /\ [][NextBooking]_vars

\* Publishing, booking creation and confirmation, one request at a time: no
\* call is interleaved with another.
StepBooking(p) ==
  \/ SetAvailability(p)
  \/ SetAvailabilityUpdate(p)
  \/ SetAvailabilityInsert(p)
  \/ CreateBooking(p)
  \/ BookingCreate(p)
  \/ UpdateReservedSeatsSelect(p)
  \/ UpdateReservedSeatsUpdate(p)
  \/ ConfirmBooking(p)
  \/ UpdateStatusSelect(p)
  \/ UpdateStatusUpdate(p)
  \/ Notify(p)
  \/ Return(p)

NextBookingSeq == StepBooking(1)

SpecBookingSeq == InitBooking /\ [][NextBookingSeq]_vars

\* The seven notifying use cases, one request at a time, with notifications
\* that can fail: one pending booking on a slot with a seat left.
InitNotify ==
  /\ slots = [s \in TimeSlots |->
                IF s = "19:00" THEN Published(MaxBookings, 1) ELSE NoSlotRow]
  /\ bookings = [b \in BookingIds |-> IF b = 1 THEN PendingBooking ELSE NoBooking]
  /\ alts = [a \in AltIds |-> NoAlt]
  /\ NoLocks
  /\ proc = [p \in Procs |-> Idle]

NextNotify ==
  \/ CreateBooking(1)
  \/ BookingCreate(1)
  \/ UpdateReservedSeatsSelect(1)
  \/ UpdateReservedSeatsUpdate(1)
  \/ ConfirmBooking(1)
  \/ RejectBooking(1)
  \/ CancelBooking(1)
  \/ UpdateStatusSelect(1)
  \/ UpdateStatusUpdate(1)
  \/ SuggestAlternativeTime(1)
  \/ AddAlternative(1)
  \/ AcceptAlternative(1)
  \/ AcceptAlternativeSelect(1)
  \/ AcceptAlternativeUpdate(1)
  \/ RejectAlternative(1)
  \/ RejectAlternativeUpdate(1)
  \/ Notify(1)
  \/ NotifyFails(1)
  \/ Return(1)

SpecNotify == InitNotify /\ [][NextNotify]_vars

\* The whole service over an empty store, one request at a time.
\* One pending booking on a slot with a free seat, and an alternative time the
\* restaurant has suggested for it.
InitDispatch ==
  /\ slots = [s \in TimeSlots |->
                IF s = "19:00" THEN Published(MaxBookings, 1) ELSE NoSlotRow]
  /\ bookings = [b \in BookingIds |-> IF b = 1 THEN PendingBooking ELSE NoBooking]
  /\ alts = [a \in AltIds |-> IF a = 1 THEN NewAlternative(1, "20:30") ELSE NoAlt]
  /\ NoLocks
  /\ proc = [p \in Procs |-> Idle]

\* Every use case that notifies after a write, next to failing writes and
\* request deadlines.
StepDispatch(p) ==
  \/ CreateBooking(p)
  \/ BookingCreate(p)
  \/ UpdateReservedSeatsSelect(p)
  \/ UpdateReservedSeatsUpdate(p)
  \/ ConfirmBooking(p)
  \/ RejectBooking(p)
  \/ CancelBooking(p)
  \/ UpdateStatusSelect(p)
  \/ UpdateStatusUpdate(p)
  \/ UpdateStatusFails(p)
  \/ AcceptAlternative(p)
  \/ AcceptAlternativeSelect(p)
  \/ AcceptAlternativeUpdate(p)
  \/ RejectAlternative(p)
  \/ RejectAlternativeUpdate(p)
  \/ Notify(p)
  \/ NotifyFails(p)
  \/ Deadline(p)
  \/ Return(p)

NextDispatch == \E p \in Procs : StepDispatch(p)

SpecDispatch == InitDispatch /\ [][NextDispatch]_vars

Init ==
  /\ slots = [s \in TimeSlots |-> NoSlotRow]
  /\ bookings = [b \in BookingIds |-> NoBooking]
  /\ alts = [a \in AltIds |-> NoAlt]
  /\ NoLocks
  /\ proc = [p \in Procs |-> Idle]

Step(p) ==
  \/ SetAvailability(p)
  \/ SetAvailabilityUpdate(p)
  \/ SetAvailabilityInsert(p)
  \/ UpdateReservedSeatsBegin(p)
  \/ UpdateReservedSeatsSelect(p)
  \/ UpdateReservedSeatsUpdate(p)
  \/ CheckAvailability(p)
  \/ CreateBooking(p)
  \/ BookingCreate(p)
  \/ ConfirmBooking(p)
  \/ RejectBooking(p)
  \/ CancelBooking(p)
  \/ CompleteBooking(p)
  \/ UpdateStatusSelect(p)
  \/ UpdateStatusUpdate(p)
  \/ UpdateStatusFails(p)
  \/ SuggestAlternativeTime(p)
  \/ AddAlternative(p)
  \/ AcceptAlternative(p)
  \/ AcceptAlternativeSelect(p)
  \/ AcceptAlternativeUpdate(p)
  \/ RejectAlternative(p)
  \/ RejectAlternativeUpdate(p)
  \/ Notify(p)
  \/ NotifyFails(p)
  \/ Deadline(p)
  \/ Return(p)

Next == \E p \in Procs : Step(p)

Spec == Init /\ [][Next]_vars

\* ------------------------------------------------------------ properties

\* C1 (SpecSlots): with the capacities fixed, every interleaving of
\* UpdateReservedSeats calls with positive and negative deltas keeps each stored
\* slot at 0 <= reserved <= capacity.
CapacityInvariant ==
  \A s \in TimeSlots :
    slots[s].exists => 0 <= slots[s].reserved /\ slots[s].reserved <= slots[s].capacity

\* One call was refused above the capacity, another over-released and was
\* floored, both on the same slot.
CapacityInvariantWitness ==
  \E p, q \in Procs :
    /\ Returned(p) /\ proc[p].op = "UpdateReservedSeats"
    /\ proc[p].err = "InsufficientCapacity"
    /\ Returned(q) /\ proc[q].op = "UpdateReservedSeats"
    /\ proc[q].err = "none" /\ proc[q].n < 0 /\ proc[q].s = proc[p].s
    /\ slots[proc[q].s].reserved = 0

AllReturned == \A p \in Procs : Returned(p)

\* Every process asked for one seat at 19:00, for a known user, and the slot
\* holds a single seat.
LastSeatRace ==
  /\ slots["19:00"].capacity = 1
  /\ \A p \in Procs :
       /\ proc[p].op = "CreateBooking" /\ proc[p].s = "19:00" /\ proc[p].n = 1
       /\ proc[p].seen = "user"

\* C2 (SpecRace): concurrent CreateBooking calls for one guest each on a slot of
\* capacity 1 and reserved 0: once all have returned, exactly one has succeeded,
\* every other one has failed with NoAvailability or InsufficientCapacity, and
\* reserved is exactly 1.
ExactlyOneBookingWins ==
  (AllReturned /\ LastSeatRace) =>
    /\ Cardinality({p \in Procs : proc[p].err = "none"}) = 1
    /\ \A p \in Procs :
         proc[p].err \in {"none", "NoAvailability", "InsufficientCapacity"}
    /\ slots["19:00"].reserved = 1

\* The race was lost past the fast path: the loser saw a free seat, inserted its
\* booking and was refused by UpdateReservedSeats.
ExactlyOneBookingWinsWitness ==
  /\ AllReturned /\ LastSeatRace
  /\ \E p \in Procs : proc[p].err = "InsufficientCapacity" /\ proc[p].b # 0
  /\ \E p \in Procs : proc[p].err = "none"

\* The transition table of the booking state machine: the statuses each action
\* is listed for.
TableFrom(op) ==
  CASE op = "ConfirmBooking" -> {BookingStatusPending}
    [] op = "RejectBooking" -> {BookingStatusPending}
    [] op = "SuggestAlternativeTime" -> {BookingStatusPending}
    [] op = "CompleteBooking" -> {BookingStatusConfirmed}
    [] op = "CancelBooking" -> {BookingStatusPending, BookingStatusConfirmed}
    [] OTHER -> Statuses

TableOps ==
  {"ConfirmBooking", "RejectBooking", "SuggestAlternativeTime", "CompleteBooking",
   "CancelBooking"}

\* C3 (SpecStatus): an action called on a booking whose status has no row for
\* it in the transition table returns InvalidBookingStatus at once and writes
\* nothing.
IllegalActionFails ==
  [][\A p \in Procs :
       (/\ proc[p].pc = "idle"
        /\ proc'[p].op \in TableOps
        /\ bookings[proc'[p].b].exists
        /\ bookings[proc'[p].b].status \notin TableFrom(proc'[p].op))
       => /\ proc'[p].pc = "ret"
          /\ proc'[p].err = "InvalidBookingStatus"
          /\ bookings' = bookings]_vars

\* The rows of the transition table as (from, to) pairs
TransitionTable ==
  {<<BookingStatusPending, BookingStatusConfirmed>>,
   <<BookingStatusPending, BookingStatusRejected>>,
   <<BookingStatusPending, BookingStatusCancelled>>,
   <<BookingStatusConfirmed, BookingStatusCancelled>>,
   <<BookingStatusConfirmed, BookingStatusCompleted>>}

\* C4 (SpecStatus): the status writes of concurrent Confirm, Reject, Cancel and
\* Complete calls, in commit order, follow the transition table: every write
\* that changes a booking's status goes from the status stored at that moment
\* along a row of the table.
StatusWritesFollowTable ==
  [][\A b \in BookingIds :
       (bookings[b].exists /\ bookings'[b].status # bookings[b].status)
       => <<bookings[b].status, bookings'[b].status>> \in TransitionTable]_vars

TerminalStatuses ==
  {BookingStatusRejected, BookingStatusCancelled, BookingStatusCompleted}

\* C5 (SpecAltsSeq): once a booking is rejected, cancelled or completed, no
\* operation changes its status again.
TerminalIsAbsorbing ==
  [][\A b \in BookingIds :
       bookings[b].status \in TerminalStatuses
       => bookings'[b].status = bookings[b].status]_vars

\* The guests of the pending and confirmed bookings, among bookings 1..n, whose
\* time is the slot's
RECURSIVE SeatsBooked(_, _)
SeatsBooked(s, n) ==
  IF n = 0 THEN 0
  ELSE SeatsBooked(s, n - 1) +
       (IF /\ bookings[n].exists
           /\ bookings[n].time = s
           /\ bookings[n].status \in {BookingStatusPending, BookingStatusConfirmed}
          THEN bookings[n].guests ELSE 0)

\* C6 (SpecBooking): in every state and for every slot, the guests of the
\* pending and confirmed bookings on the slot's time do not exceed its capacity.
NoOverbooking ==
  \A s \in TimeSlots :
    slots[s].exists => SeatsBooked(s, MaxBookings) <= slots[s].capacity

\* C7 (SpecLedger): 0 <= reserved <= capacity for every stored slot, under
\* SetAvailability (re-publishing included) and UpdateReservedSeats.
SlotInvariant ==
  \A s \in TimeSlots : slots[s].reserved \in 0..slots[s].capacity

\* C8 (SpecBooking): a CreateBooking call that returned after its seat
\* reservation failed on an inserted booking returns the capacity error and
\* leaves that booking cancelled.
CompensationCancels ==
  \A p \in Procs :
    (/\ Returned(p) /\ proc[p].op = "CreateBooking"
     /\ proc[p].b # 0 /\ proc[p].err # "none")
    => /\ proc[p].err \in {"InsufficientCapacity", "AvailabilityNotFound"}
       /\ bookings[proc[p].b].status = BookingStatusCancelled

\* C9 (SpecAlts): AcceptAlternative writes the alternative and its booking as
\* one unit: the step that sets accepted_at also gives the parent booking the
\* alternative's time, status confirmed and confirmed_at; an AcceptAlternative
\* call that fails writes neither; a call that succeeded has accepted_at set.
AcceptIsAtomic ==
  /\ [](\A p \in Procs :
          (/\ proc[p].op = "AcceptAlternative" /\ proc[p].err = "none"
           /\ proc[p].pc \in {"notify", "ret"})
          => alts[proc[p].a].accepted_at)
  /\ [][/\ \A a \in AltIds :
             (alts'[a].accepted_at /\ ~alts[a].accepted_at)
             => /\ bookings'[alts[a].booking].time = alts[a].time
                /\ bookings'[alts[a].booking].status = BookingStatusConfirmed
                /\ bookings'[alts[a].booking].confirmed_at
        /\ \A p \in Procs :
             (/\ proc[p].op = "AcceptAlternative"
              /\ proc'[p] # proc[p]
              /\ alts'[proc[p].a].accepted_at = alts[proc[p].a].accepted_at)
             => (alts' = alts /\ bookings' = bookings)]_vars

\* An AcceptAlternative committed while another transaction was updating the
\* status of the same booking: the booking now has the alternative's time.
AcceptIsAtomicWitness ==
  \E p \in Procs, a \in AltIds :
    /\ proc[p].op = "AcceptAlternative" /\ proc[p].pc = "notify" /\ proc[p].a = a
    /\ alts[a].accepted_at
    /\ bookings[alts[a].booking].time = alts[a].time
    /\ bookings[alts[a].booking].time # PendingBooking.time
    /\ bookings[alts[a].booking].status = BookingStatusConfirmed
    /\ \E q \in Procs : q # p /\ proc[q].b = alts[a].booking /\ proc[q].pc = "us_select"

AlternativeCalls == {"AcceptAlternative", "RejectAlternative"}

\* C10 (SpecAlts): an AcceptAlternative or RejectAlternative call on an
\* alternative that is already accepted or rejected returns
\* AlternativeNotFound, sends no notification, and none of its steps changes
\* an alternative or a booking.
DecidedIsFinal ==
  /\ [](\A p \in Procs :
          (proc[p].op \in AlternativeCalls /\ proc[p].seen = "decided")
          => /\ proc[p].pc # "notify"
             /\ proc[p].notif = "none"
             /\ Returned(p) => proc[p].err = "AlternativeNotFound")
  /\ [][\A p \in Procs :
          (/\ proc[p].op \in AlternativeCalls /\ proc[p].seen = "decided"
           /\ proc'[p] # proc[p])
          => (alts' = alts /\ bookings' = bookings)]_vars

\* Both kinds of call have returned AlternativeNotFound on a decided
\* alternative: an accept after a rejection and a reject after it.
DecidedIsFinalWitness ==
  \E p, q \in Procs :
    /\ Returned(p) /\ proc[p].op = "AcceptAlternative" /\ proc[p].seen = "decided"
    /\ proc[p].err = "AlternativeNotFound"
    /\ Returned(q) /\ proc[q].op = "RejectAlternative" /\ proc[q].seen = "decided"
    /\ proc[q].err = "AlternativeNotFound"
    /\ proc[p].a = proc[q].a /\ alts[proc[p].a].rejected_at

\* Process p is past the decision of an AcceptAlternative / RejectAlternative
\* call that found its alternative undecided
Raced(p) ==
  /\ proc[p].op \in AlternativeCalls /\ proc[p].seen = "undecided"
  /\ proc[p].pc \in {"notify", "ret"}

\* Two calls that both found the same alternative undecided have returned
DecisionRace(p, q) ==
  /\ p # q /\ Raced(p) /\ Raced(q) /\ Returned(p) /\ Returned(q)
  /\ proc[p].a = proc[q].a

\* C11 (SpecAlts): no alternative has accepted_at and rejected_at both set; a
\* decided alternative never changes again; of the AcceptAlternative /
\* RejectAlternative calls that run concurrently on one undecided alternative
\* exactly one succeeds: no two of them succeed, the one that does has made its
\* decision, and every other returns AlternativeNotFound on the alternative
\* that the winner decided.
OneDecision ==
  /\ [](\A a \in AltIds : ~(alts[a].accepted_at /\ alts[a].rejected_at))
  /\ [](\A p, q \in Procs :
          (p # q /\ Raced(p) /\ Raced(q) /\ proc[p].a = proc[q].a)
          => ~(proc[p].err = "none" /\ proc[q].err = "none"))
  /\ [](\A p \in Procs :
          Raced(p) =>
            IF proc[p].err = "none"
              THEN IF proc[p].op = "AcceptAlternative"
                     THEN alts[proc[p].a].accepted_at
                     ELSE alts[proc[p].a].rejected_at
              ELSE /\ proc[p].err = "AlternativeNotFound"
                   /\ AltDecided(alts[proc[p].a]))
  /\ [][\A a \in AltIds : AltDecided(alts[a]) => alts'[a] = alts[a]]_vars

\* An AcceptAlternative and a RejectAlternative raced on one alternative and the
\* accept lost: the alternative is rejected, the accept got AlternativeNotFound.
OneDecisionWitness ==
  \E p, q \in Procs :
    /\ DecisionRace(p, q)
    /\ proc[p].op = "AcceptAlternative" /\ proc[p].err = "AlternativeNotFound"
    /\ proc[q].op = "RejectAlternative" /\ proc[q].err = "none"
    /\ alts[proc[p].a].rejected_at /\ ~alts[proc[p].a].accepted_at

\* The step is one of process p's SetAvailability call
SetAvailabilityStep(p) ==
  /\ proc[p].op = "SetAvailability" /\ proc[p].pc \in {"sa_update", "sa_insert"}
  /\ proc'[p] # proc[p]

\* C12 (SpecLedger): a SetAvailability call for a time slot that has a row
\* changes nothing of it but the capacity, which becomes the requested one
\* (reserved is kept, never reset, also between concurrent UpdateReservedSeats
\* calls on the row); for a time slot with no row it inserts the requested
\* capacity with reserved = 0; it touches no other slot.
UpsertKeepsReserved ==
  [][\A p \in Procs :
       SetAvailabilityStep(p) =>
         \A s \in TimeSlots :
           IF s # proc[p].s THEN slots'[s] = slots[s]
           ELSE IF slots[s].exists
             THEN /\ slots'[s].exists
                  /\ slots'[s].reserved = slots[s].reserved
                  /\ slots'[s].capacity =
                       IF proc[p].pc = "sa_update" THEN proc[p].n
                       ELSE slots[s].capacity
             ELSE slots'[s] = Published(proc[p].n, 0)]_vars

\* A slot with seats reserved was re-published with another capacity between two
\* seat adjustments: SetAvailability has returned, the second adjustment holds
\* the row, and the reserved seats are still counted.
UpsertKeepsReservedWitness ==
  \E p, q \in Procs :
    /\ Returned(p) /\ proc[p].op = "SetAvailability" /\ proc[p].err = "none"
    /\ proc[q].op = "UpdateReservedSeats" /\ proc[q].pc = "urs_update"
    /\ proc[q].s = proc[p].s
    /\ slots[proc[p].s].reserved > 0
    /\ slots[proc[p].s].capacity = proc[p].n
    /\ proc[q].cap = proc[p].n /\ proc[q].res = slots[proc[p].s].reserved

\* The slot of the requested time has the requested seats free
SeatsFree(t, g) == slots[t].exists /\ slots[t].capacity - slots[t].reserved >= g

\* Process p is in a CreateBooking call for an existing user
Creating(p) == proc[p].op = "CreateBooking" /\ proc[p].seen = "user"

FastPathRejects ==
  /\ [](\A p \in Procs :
          (proc[p].op = "CreateBooking" /\ proc[p].err = "NoAvailability") =>
            /\ Returned(p) /\ proc[p].b = 0 /\ proc[p].notif = "none")
  /\ [][\A p \in Procs :
          (/\ proc[p].pc = "idle" /\ proc'[p].op = "CreateBooking"
           /\ ~SeatsFree(proc'[p].s, proc'[p].n))
          => /\ proc'[p].pc = "ret" /\ proc'[p].err = "NoAvailability"
             /\ bookings' = bookings /\ slots' = slots]_vars

\* One call asked for a time with no slot, the other for more guests than the
\* slot has seats free; both were refused and the store holds no booking.
FastPathRejectsWitness ==
  \E p, q \in Procs :
    /\ Returned(p) /\ proc[p].op = "CreateBooking" /\ proc[p].err = "NoAvailability"
    /\ ~slots[proc[p].s].exists
    /\ Returned(q) /\ proc[q].op = "CreateBooking" /\ proc[q].err = "NoAvailability"
    /\ slots[proc[q].s].exists
    /\ slots[proc[q].s].capacity - slots[proc[q].s].reserved < proc[q].n
    /\ \A b \in BookingIds : ~bookings[b].exists
    /\ \A s \in TimeSlots : slots[s].reserved = 0

\* The timestamps a booking has set, of confirmed_at, rejected_at, completed_at
TimestampsSet(row) ==
  {c \in {BookingStatusConfirmed, BookingStatusRejected, BookingStatusCompleted} :
     CASE c = BookingStatusConfirmed -> row.confirmed_at
       [] c = BookingStatusRejected -> row.rejected_at
       [] c = BookingStatusCompleted -> row.completed_at}

\* C15 (SpecStatusSeq): in every state every booking with status confirmed,
\* rejected or completed has exactly the timestamp of its status set, and a
\* pending or cancelled booking has none of the three set.
StatusMatchesTimestamps ==
  \A b \in BookingIds :
    bookings[b].exists =>
      TimestampsSet(bookings[b]) =
        IF bookings[b].status \in {BookingStatusPending, BookingStatusCancelled}
          THEN {} ELSE {bookings[b].status}

\* The To column of the transition table
TableTo(op) ==
  CASE op = "ConfirmBooking" -> BookingStatusConfirmed
    [] op = "RejectBooking" -> BookingStatusRejected
    [] op = "CancelBooking" -> BookingStatusCancelled
    [] op = "CompleteBooking" -> BookingStatusCompleted
    [] op = "SuggestAlternativeTime" -> BookingStatusPending

\* The notification the table lists for each action: the party and the type
TableNotification(op) ==
  CASE op = "ConfirmBooking" -> <<"user", "booking_confirmed">>
    [] op = "RejectBooking" -> <<"user", "booking_rejected">>
    [] op = "CancelBooking" -> <<"restaurant", "booking_cancelled">>
    [] op = "CompleteBooking" -> <<"none", "none">>
    [] op = "SuggestAlternativeTime" -> <<"user", "alternative_offer">>

\* C16 (SpecStatusSeq): an action of the transition table called on a booking
\* in one of its listed From statuses, with no other call interleaved, returns
\* nil, has stored the listed To status, and has sent the listed notification
\* and no other: Confirm and Reject notify the user, Cancel the restaurant,
\* Complete nobody, SuggestAlternativeTime the user, leaving the booking pending.
TableEffects ==
  \A p \in Procs :
    (Returned(p) /\ proc[p].op \in TableOps /\ proc[p].seen \in TableFrom(proc[p].op))
    => /\ proc[p].err = "none"
       /\ bookings[proc[p].b].status = TableTo(proc[p].op)
       /\ <<proc[p].rcpt, proc[p].notif>> = TableNotification(proc[p].op)
       /\ proc[p].op = "SuggestAlternativeTime" =>
            /\ proc[p].a # 0
            /\ alts[proc[p].a] = [NoAlt EXCEPT !.exists = TRUE, !.booking = proc[p].b,
                                               !.time = proc[p].s]

\* A confirmed booking was cancelled: the restaurant got booking_cancelled.
TableEffectsWitness ==
  \E p \in Procs :
    /\ Returned(p) /\ proc[p].op = "CancelBooking"
    /\ proc[p].seen = BookingStatusConfirmed
    /\ bookings[proc[p].b].status = BookingStatusCancelled
    /\ proc[p].notif = "booking_cancelled" /\ proc[p].rcpt = "restaurant"

\* C17 (SpecCancel): no step of a CancelBooking call, successful or refused,
\* changes a slot: the reserved value of the cancelled booking's slot is what
\* the other calls made it.
CancelKeepsSeats ==
  [][\A p \in Procs :
       (/\ proc[p].op = "CancelBooking" \/ proc'[p].op = "CancelBooking"
        /\ proc'[p] # proc[p])
       => slots' = slots]_vars

\* One booking was cancelled, the cancellation of a rejected one was refused,
\* and the slot still counts the seats of both.
CancelKeepsSeatsWitness ==
  \E p, q \in Procs :
    /\ Returned(p) /\ proc[p].op = "CancelBooking" /\ proc[p].err = "none"
    /\ bookings[proc[p].b].status = BookingStatusCancelled
    /\ Returned(q) /\ proc[q].op = "CancelBooking"
    /\ proc[q].err = "InvalidBookingStatus"
    /\ bookings[proc[q].b].status = BookingStatusRejected
    /\ slots[bookings[proc[p].b].time] = Published(MaxBookings, MaxBookings)

\* What each notifying use case has committed before its notification call
Committed(r) ==
  CASE r.op = "CreateBooking" ->
         /\ bookings[r.b].exists /\ bookings[r.b].status = BookingStatusPending
         /\ slots[r.s].reserved >= r.n
    [] r.op \in {"ConfirmBooking", "RejectBooking", "CancelBooking"} ->
         bookings[r.b].status = TableTo(r.op)
    [] r.op = "SuggestAlternativeTime" -> alts[r.a].exists /\ alts[r.a].booking = r.b
    [] r.op = "AcceptAlternative" ->
         /\ alts[r.a].accepted_at
         /\ bookings[r.b].status = BookingStatusConfirmed
         /\ bookings[r.b].time = alts[r.a].time
    [] r.op = "RejectAlternative" -> alts[r.a].rejected_at
    [] OTHER -> FALSE

\* C18 (SpecNotify): when the notification call of CreateBooking,
\* ConfirmBooking, RejectBooking, CancelBooking, SuggestAlternativeTime,
\* AcceptAlternative or RejectAlternative fails, the use case returns nil all
\* the same and what it committed stays committed: the step from the
\* notification to the return writes nothing to the store.
NotificationFailureIsNotFatal ==
  /\ [](\A p \in Procs :
          (Returned(p) /\ proc[p].notif = "failed") =>
            (proc[p].err = "none" /\ Committed(proc[p])))
  /\ [][\A p \in Procs :
          (proc[p].pc = "notify" /\ proc'[p] # proc[p]) =>
            /\ proc'[p].pc = "ret" /\ proc'[p].err = "none"
            /\ slots' = slots /\ bookings' = bookings /\ alts' = alts]_vars

\* An accepted alternative whose notification failed: AcceptAlternative has
\* returned nil, the alternative is accepted and the booking moved.
NotificationFailureIsNotFatalWitness ==
  \E p \in Procs :
    /\ Returned(p) /\ proc[p].notif = "failed" /\ proc[p].err = "none"
    /\ proc[p].op = "AcceptAlternative"
    /\ alts[proc[p].a].accepted_at
    /\ bookings[proc[p].b].status = BookingStatusConfirmed
    /\ bookings[proc[p].b].time = "20:30"

\* The reference of AdjustReservedSeats on a stored slot: the error and the
\* reserved value it leaves
ReferenceAdjust(row, delta) ==
  IF row.reserved + delta > row.capacity
    THEN [err |-> "InsufficientCapacity", reserved |-> row.reserved]
    ELSE [err |-> "none",
          reserved |-> IF row.reserved + delta > 0 THEN row.reserved + delta ELSE 0]

\* C19 (SpecLedger): UpdateReservedSeats does what its reference does, for
\* every slot row (those with reserved above a lowered capacity included) and
\* every delta of Deltas, the largest integer included: a missing slot gives AvailabilityNotFound; reserved +
\* delta > capacity gives InsufficientCapacity and leaves the row; otherwise it
\* returns nil and stores max(0, reserved + delta), changing nothing else.
AdjustMatchesReference ==
  [][\A p \in Procs :
       (proc[p].op = "UpdateReservedSeats" /\ proc'[p] # proc[p] /\ ~Returned(p)) =>
         LET s == proc[p].s
             ref == ReferenceAdjust(slots[s], proc[p].n)
         IN CASE proc[p].pc = "urs_select" /\ ~slots[s].exists ->
                   /\ Returned(p)' /\ proc'[p].err = "AvailabilityNotFound"
                   /\ slots' = slots
              [] proc[p].pc = "urs_select" /\ slots[s].exists ->
                   /\ ~Returned(p)' /\ slots' = slots
              [] proc[p].pc = "urs_update" ->
                   /\ Returned(p)' /\ proc'[p].err = ref.err
                   /\ slots' = [slots EXCEPT ![s].reserved = ref.reserved]
              [] OTHER -> FALSE]_vars

\* C20 (SpecCheck): CheckAvailability answers true exactly when the slot of the
\* requested time exists and capacity - reserved >= guests_count, false with
\* no error when it does not, false with the error when the lookup failed, and
\* it writes nothing, whatever publishing and seat adjustments run next to it.
CheckAvailabilityAnswers ==
  [][\A p \in Procs :
       (proc[p].pc = "idle" /\ proc'[p].op = "CheckAvailability") =>
         LET r == proc'[p]
             row == slots[r.s]
         IN /\ r.pc = "ret"
            /\ slots' = slots /\ bookings' = bookings /\ alts' = alts
            /\ IF r.err # "none" THEN r.seen = "false"
               ELSE (r.seen = "true") <=>
                      (row.exists /\ row.capacity - row.reserved >= r.n)
            /\ r.seen \in {"true", "false"}]_vars

\* The same slot, with one seat free, was found available for one guest and
\* not for two.
CheckAvailabilityAnswersWitness ==
  \E p, q \in Procs :
    /\ Returned(p) /\ proc[p].op = "CheckAvailability" /\ proc[p].err = "none"
    /\ proc[p].seen = "false" /\ proc[p].n = 2
    /\ slots[proc[p].s].exists
    /\ slots[proc[p].s].capacity - slots[proc[p].s].reserved = 1
    /\ Returned(q) /\ proc[q].op = "CheckAvailability" /\ proc[q].err = "none"
    /\ proc[q].seen = "true" /\ proc[q].n = 1 /\ proc[q].s = proc[p].s

\* The step is one of process p's call of one of the operations ops
StepOf(p, ops) ==
  /\ proc[p].op \in ops \/ proc'[p].op \in ops
  /\ proc'[p] # proc[p]

\* C21 (SpecAlts): no step of a SuggestAlternativeTime or RejectAlternative
\* call, successful or not, changes a booking; the insert of a successful
\* SuggestAlternativeTime adds exactly one alternative, for its booking and
\* time, with accepted_at and rejected_at unset; the update of a successful
\* RejectAlternative sets rejected_at of its alternative and nothing else; no
\* other step of these calls changes an alternative.
SuggestAndRejectFrame ==
  [][\A p \in Procs :
       StepOf(p, {"SuggestAlternativeTime", "RejectAlternative"}) =>
         /\ bookings' = bookings
         /\ CASE proc[p].pc = "alt_insert" ->
                   \E a \in AltIds :
                     /\ ~alts[a].exists /\ proc'[p].a = a
                     /\ alts' = [alts EXCEPT ![a] =
                                   [NoAlt EXCEPT !.exists = TRUE,
                                                 !.booking = proc[p].b,
                                                 !.time = proc[p].s]]
              [] proc[p].pc = "ra_update" /\ proc'[p].err = "none" ->
                   /\ ~AltDecided(alts[proc[p].a])
                   /\ alts' = [alts EXCEPT ![proc[p].a].rejected_at = TRUE]
              [] OTHER -> alts' = alts]_vars

\* A rejected alternative next to its booking, which is as CreateBooking left it.
SuggestAndRejectFrameWitness ==
  \E p \in Procs :
    /\ Returned(p) /\ proc[p].op = "RejectAlternative" /\ proc[p].err = "none"
    /\ alts[proc[p].a].rejected_at /\ ~alts[proc[p].a].accepted_at
    /\ alts[proc[p].a].time # PendingBooking.time
    /\ bookings[alts[proc[p].a].booking] = PendingBooking

\* C22 (SpecAltSeats): no step of a SuggestAlternativeTime, AcceptAlternative
\* or RejectAlternative call changes a slot: after AcceptAlternative the slot
\* the booking left still counts its seats and the slot it moved to counts
\* none for it.
AlternativesKeepSeats ==
  [][\A p \in Procs :
       StepOf(p, {"SuggestAlternativeTime", "AcceptAlternative", "RejectAlternative"})
       => slots' = slots]_vars

\* Booking 1 has moved from 19:00 to 20:30 and both slots count what they
\* counted before.
AlternativesKeepSeatsWitness ==
  \E p \in Procs :
    /\ Returned(p) /\ proc[p].op = "AcceptAlternative" /\ proc[p].err = "none"
    /\ proc[p].b = 1 /\ bookings[1].time = "20:30"
    /\ bookings[1].status = BookingStatusConfirmed
    /\ slots["19:00"] = Published(1, 1)
    /\ slots["20:30"] = Published(MaxBookings - 1, MaxBookings - 1)

\* No call is in progress
Quiescent == \A p \in Procs : ~InCall(p) /\ proc[p].pc # "notify"

\* C23 (SpecDeadline): whenever no call is in progress, also after calls that
\* were aborted by their deadline, the store is one that completed CreateBooking
\* calls alone produce from empty slots: every slot's reserved value is the sum
\* of the guests of its pending bookings, so no pending booking is left whose
\* guests were not added to its slot.
DeadlineLeavesStoreConsistent ==
  Quiescent =>
    \A s \in TimeSlots :
      slots[s].exists => slots[s].reserved = SeatsBooked(s, MaxBookings)

\* C24 (SpecLedger): every stored slot has capacity >= 1 (a SetAvailability
\* call with a smaller capacity is not accepted).
StoredCapacityIsPositive ==
  \A s \in TimeSlots : slots[s].exists => slots[s].capacity >= 1

\* a caller inside WithTransaction that waits for a pool connection
WaitsForConn(p) == proc[p].pc \in {"wt_executor", "wt_acquire"}

\* C25 (SpecPool): transactional operations on pairwise different rows never
\* wait for each other in a circle, pool connections included: whenever a caller
\* waits for a connection, one is free or is held by a caller that is running
\* its transaction and will release it.
NoCircularWait ==
  (\E p \in Procs : WaitsForConn(p)) =>
    \/ FreeConns > 0
    \/ \E q \in Procs : proc[q].conns > 0 /\ ~WaitsForConn(q)

\* the rows a process holds locked
HoldsNoLock(p) ==
  /\ \A t \in TimeSlots : slotLock[t] # p
  /\ \A b \in BookingIds : bookingLock[b] # p
  /\ \A a \in AltIds : altLock[a] # p

\* What the committing step of each notifying use case leaves in the store
WriteCommitted(r) ==
  CASE r.op = "CreateBooking" ->
         bookings[r.b].exists /\ slots[r.s].reserved = r.res + r.n
    [] r.op \in {"ConfirmBooking", "RejectBooking", "CancelBooking"} ->
         bookings[r.b].status = TableTo(r.op)
    [] r.op = "AcceptAlternative" ->
         /\ alts[r.a].accepted_at
         /\ bookings[r.b].status = BookingStatusConfirmed
         /\ bookings[r.b].time = alts[r.a].time
    [] r.op = "RejectAlternative" -> alts[r.a].rejected_at
    [] OTHER -> FALSE

\* C26 (SpecDispatch): a use case reaches its notification call only by the
\* step that commits its write, with the write in the store, no error and no
\* row lock left; the notification is dispatched from there, holding no lock;
\* and a call that returns an error has dispatched no notification.
DispatchAfterCommit ==
  [][\A p \in Procs :
       /\ (proc[p].pc # "notify" /\ proc'[p].pc = "notify")
            => /\ proc[p].pc \in {"us_update", "urs_update", "aa_update", "ra_update"}
               /\ WriteCommitted(proc[p])'
               /\ HoldsNoLock(p)'
               /\ proc'[p].err = "none"
       /\ (proc'[p].notif # proc[p].notif /\ proc'[p].notif # "none")
            => /\ proc[p].pc = "notify"
               /\ proc[p].err = "none"
               /\ HoldsNoLock(p)
       /\ (proc[p].pc # "ret" /\ proc'[p].pc = "ret" /\ proc'[p].err # "none")
            => proc'[p].notif = "none"]_vars

\* An accepted alternative was notified to the restaurant, and a ConfirmBooking
\* whose UpdateStatus failed returned its error without a notification.
DispatchAfterCommitWitness ==
  \E p, q \in Procs :
    /\ Returned(p) /\ proc[p].op = "AcceptAlternative" /\ proc[p].err = "none"
    /\ proc[p].notif = NotificationOf("AcceptAlternative")
    /\ Returned(q) /\ proc[q].op = "ConfirmBooking"
    /\ proc[q].err = "UpdateBookingStatus" /\ proc[q].notif = "none"

\* C27 (SpecLedger): SetAvailability calls racing on a key that has no row are
\* absorbed as an upsert: none of them returns the unique-constraint violation
\* of its INSERT.
PublishRaceIsAbsorbed ==
  \A p \in Procs :
    Returned(p) /\ proc[p].op = "SetAvailability" => proc[p].err # "UniqueViolation"

\* C28 (SpecAlts): every step that inserts a booking_alternatives row finds
\* the parent booking's stored status pending, also next to concurrent
\* ConfirmBooking and RejectBooking calls on that booking.
AlternativeOnlyForPending ==
  [][\A p \in Procs :
       (proc[p].pc = "alt_insert" /\ alts' # alts)
         => bookings[proc[p].b].status = BookingStatusPending]_vars

\* C29 (SpecAltsSeq): no booking ever has two alternatives with accepted_at
\* set: once one is accepted, AcceptAlternative on another undecided
\* alternative of the same booking does not succeed.
AtMostOneAccepted ==
  \A a1, a2 \in AltIds :
    /\ alts[a1].exists /\ alts[a2].exists
    /\ alts[a1].booking = alts[a2].booking
    /\ alts[a1].accepted_at /\ alts[a2].accepted_at
    => a1 = a2

\* C30 (SpecLedger): the UPDATE step of an UpdateReservedSeats call with
\* delta <= 0 never ends in ErrInsufficientCapacity and never increases the
\* slot's reserved value, whatever SetAvailability did to the capacity before.
ReleaseNeverRefused ==
  [][\A p \in Procs :
       (proc[p].pc = "urs_update" /\ proc[p].n <= 0 /\ proc'[p].pc # "urs_update")
         => /\ proc'[p].err # "InsufficientCapacity"
            /\ slots'[proc[p].s].reserved <= slots[proc[p].s].reserved]_vars

====
